---------------------------- MODULE Spec2Model ----------------------------
(***************************************************************************)
(* Model of quality_control.py: the masking filters, the range clamp, the  *)
(* dealiasing orchestrator's sweep selection and the file name repair.     *)
(*                                                                         *)
(* A radar volume is a record [shape, fields]; fields maps a field name to *)
(* the float array behind the masked array (`.data`), a function from      *)
(* <<ray, gate>> to a value.  Values are in tenths (0.2 is 2, 25 is 250).  *)
(* Assigning None into a float array stores NaN; NaN compares false with   *)
(* everything, which Gt and Lt reproduce.  Every field is a float masked   *)
(* array, as the Py-ART readers deliver, so the assignment through `.data` *)
(* succeeds and the except branches that repeat it on the masked array     *)
(* itself are not taken.  All arrays of a volume have one shape.           *)
(***************************************************************************)
EXTENDS Integers, Sequences, FiniteSets, TLC

VARIABLES pc, radar, pre, mid, alt, call, err,
          infile, fixed, refixed,
          container, nyquist_vel, sweeps, handed

vars == <<pc, radar, pre, mid, alt, call, err,
          infile, fixed, refixed,
          container, nyquist_vel, sweeps, handed>>

radarVars == <<radar, pre, mid, alt, call, err>>
fileVars == <<infile, fixed, refixed>>
sweepVars == <<container, nyquist_vel, sweeps, handed>>

-----------------------------------------------------------------------------
(* Bounds of the model *)

\* gates per ray of a volume; a volume has one ray
NGates == 1

\* what a float array holds after `array[mask] = None`
NaN == -9999

\* gate values a reader can deliver, in tenths, and NaN
Values == {-2, 0, 2, 251}
Val == Values \cup {NaN}

\* the (min, max) pairs a caller passes, in tenths; <<2, 0>> is inverted
BoundPairs == {<<0, 2>>, <<-2, 2>>, <<2, 0>>}

\* the [ray, gate] shape every field array of a volume has
Shape == <<1, NGates>>
Cells(shape) == (1..shape[1]) \X (1..shape[2])

\* field names the code looks up, and one name no filter knows
Absent == "bogus"
Layouts == { {"reflectivity", "dealiased_velocity"},
             {"DBZH", "DBZV"},
             {"DBZH"},
             {"differential_reflectivity", "snr"},
             {"cross_correlation_ratio", "normalized_coherent_power"},
             {"RHOHV", "PHIDP"},
             {"correlation_coefficient", "specific_differential_phase"} }

\* dict order of radar.fields
FieldOrder == << "reflectivity", "DBZH", "DBZV", "dealiased_velocity",
                 "differential_reflectivity", "cross_correlation_ratio",
                 "RHOHV", "correlation_coefficient", "PHIDP",
                 "specific_differential_phase", "normalized_coherent_power",
                 "snr" >>

VolumesOf(layouts) == UNION { { [shape |-> Shape, fields |-> f] :
                                  f \in [names -> [Cells(Shape) -> Val]] } :
                              names \in layouts }
Volumes == VolumesOf(Layouts)

-----------------------------------------------------------------------------
(* numpy comparisons and masked assignment *)

Gt(a, b) == a # NaN /\ b # NaN /\ a > b
Lt(a, b) == a # NaN /\ b # NaN /\ a < b

\* data > v, data < v: boolean arrays of data's shape
Over(data, v) == [c \in DOMAIN data |-> Gt(data[c], v)]
Under(data, v) == [c \in DOMAIN data |-> Lt(data[c], v)]

\* the gates set to zero instead of None
SetNoneZero(data, mask) == [c \in DOMAIN data |-> IF mask[c] THEN 0 ELSE data[c]]

\* data[mask] = None
SetNone(data, mask) == [c \in DOMAIN data |-> IF mask[c] THEN NaN ELSE data[c]]

\* data[mask] = v
SetValue(data, mask, v) == [c \in DOMAIN data |-> IF mask[c] THEN v ELSE data[c]]

\* a loop body that keeps the first assignment and loses the second
ApplyMasksFirstOnly(data, masks, i) ==
    IF Len(masks) = 0 THEN data ELSE SetNone(data, masks[1])

RECURSIVE ApplyMasks(_, _, _)
ApplyMasks(data, masks, i) ==
    IF i > Len(masks) THEN data
    ELSE ApplyMasks(SetNone(data, masks[i]), masks, i + 1)

\* a loop that looks every name up before it writes any field
MaskLoopAtomic(fields, names, masks, i) ==
    IF \E k \in 1..Len(names) : names[k] \notin DOMAIN fields
    THEN [fields |-> fields, err |-> "KeyError"]
    ELSE [fields |-> [f \in DOMAIN fields |->
                        IF \E k \in 1..Len(names) : names[k] = f
                        THEN ApplyMasks(fields[f], masks, 1)
                        ELSE fields[f]],
          err |-> "none"]

\* for field in radar_fieldnames: radar.fields[field]['data'].data[m] = None
\* for each mask m in turn; a name that is no field raises KeyError there,
\* after the fields named before it have been written.
RECURSIVE MaskLoop(_, _, _, _)
MaskLoop(fields, names, masks, i) ==
    IF i > Len(names) THEN [fields |-> fields, err |-> "none"]
    ELSE IF names[i] \notin DOMAIN fields
         THEN [fields |-> fields, err |-> "KeyError"]
         ELSE MaskLoop([fields EXCEPT ![names[i]] = ApplyMasks(@, masks, 1)],
                       names, masks, i + 1)

Raise(fields) == [fields |-> fields, err |-> "KeyError"]

-----------------------------------------------------------------------------
(* The filters.  Each takes the field mapping and returns the mapping it   *)
(* leaves behind and the exception it ends with ("none" when it returns).  *)

removeNoiseZ(fields, names, Z_min, Z_max) ==
    IF "reflectivity" \in DOMAIN fields
    THEN MaskLoop(fields, names,
                  << Over(fields["reflectivity"], Z_max),
                     Under(fields["reflectivity"], Z_min) >>, 1)
    ELSE IF "DBZH" \notin DOMAIN fields \/ "DBZV" \notin DOMAIN fields
         THEN Raise(fields)
         ELSE MaskLoop(fields, names,
                       << Over(fields["DBZH"], Z_max),
                          Under(fields["DBZV"], Z_min) >>, 1)

\* Z_max = 25 and the 0.2 of slow / slow2, in tenths
ClutterZ == 250
SlowLimit == 2

\* the clutter mask without the slow2 test (velocity > -0.2)
removeMountainClutterNoSlow2(fields, names) ==
    IF "dealiased_velocity" \notin DOMAIN fields \/ "reflectivity" \notin DOMAIN fields
    THEN Raise(fields)
    ELSE LET slow == Under(fields["dealiased_velocity"], SlowLimit)
             highz == Over(fields["reflectivity"], ClutterZ)
         IN  MaskLoop(fields, names,
                      << [c \in DOMAIN fields["reflectivity"] |-> slow[c] /\ highz[c]] >>, 1)

removeMountainClutter(fields, names) ==
    IF "dealiased_velocity" \notin DOMAIN fields \/ "reflectivity" \notin DOMAIN fields
    THEN Raise(fields)
    ELSE LET vel == fields["dealiased_velocity"]
             slow == Under(vel, SlowLimit)
             slow2 == Over(vel, -SlowLimit)
             highz == Over(fields["reflectivity"], ClutterZ)
             \* reshaped to the shape of the reflectivity array
             mountainIndices == [c \in DOMAIN fields["reflectivity"] |->
                                    slow[c] /\ slow2[c] /\ highz[c]]
         IN  MaskLoop(fields, names, << mountainIndices >>, 1)

removeNoiseZdr(fields, names, Zdr_min, Zdr_max) ==
    IF "differential_reflectivity" \notin DOMAIN fields
    THEN Raise(fields)
    ELSE MaskLoop(fields, names,
                  << Over(fields["differential_reflectivity"], Zdr_max),
                     Under(fields["differential_reflectivity"], Zdr_min) >>, 1)

removeNoiseRhoHV(fields, names, rhohv_min, rhohv_max) ==
    LET found == IF "cross_correlation_ratio" \in DOMAIN fields
                 THEN "cross_correlation_ratio"
                 ELSE IF "RHOHV" \in DOMAIN fields
                      THEN "RHOHV"
                      ELSE "correlation_coefficient"
    IN  IF found \notin DOMAIN fields
        THEN Raise(fields)
        ELSE MaskLoop(fields, names,
                      << Over(fields[found], rhohv_max),
                         Under(fields[found], rhohv_min) >>, 1)

removeNoisePhiDP(fields, names, PhiDP_min, PhiDP_max) ==
    LET found == IF "PHIDP" \in DOMAIN fields
                 THEN "PHIDP"
                 ELSE "specific_differential_phase"
    IN  IF found \notin DOMAIN fields
        THEN Raise(fields)
        ELSE MaskLoop(fields, names,
                      << Over(fields[found], PhiDP_max),
                         Under(fields[found], PhiDP_min) >>, 1)

removeNoiseNCP(fields, names, ncp_min, ncp_max) ==
    IF "normalized_coherent_power" \notin DOMAIN fields
    THEN Raise(fields)
    ELSE MaskLoop(fields, names,
                  << Over(fields["normalized_coherent_power"], ncp_max),
                     Under(fields["normalized_coherent_power"], ncp_min) >>, 1)

removeNoiseSNR(fields, names, snr_min, snr_max) ==
    IF "snr" \notin DOMAIN fields
    THEN Raise(fields)
    ELSE LET snr == fields["snr"]
             within == [c \in DOMAIN snr |->
                           Lt(snr[c], snr_max) /\ Gt(snr[c], snr_min)]
             notWithin == [c \in DOMAIN snr |-> ~within[c]]
         IN  MaskLoop(fields, names, << notWithin >>, 1)

\* the under gates assigned val_max as the over gates are
set2rangeBothMax(fields, field, val_max, val_min) ==
    IF field \notin DOMAIN fields
    THEN Raise(fields)
    ELSE [fields |-> [fields EXCEPT ![field] =
                         SetValue(SetValue(@, Over(fields[field], val_max), val_max),
                                  Under(fields[field], val_min), val_max)],
          err |-> "none"]

\* the two comparisons exchanged: over from "<", under from ">"
set2rangeFlipped(fields, field, val_max, val_min) ==
    IF field \notin DOMAIN fields
    THEN Raise(fields)
    ELSE [fields |-> [fields EXCEPT ![field] =
                         SetValue(SetValue(@, Under(fields[field], val_max), val_max),
                                  Over(fields[field], val_min), val_min)],
          err |-> "none"]

set2range(fields, field, val_max, val_min) ==
    IF field \notin DOMAIN fields
    THEN Raise(fields)
    ELSE LET over == Over(fields[field], val_max)
             under == Under(fields[field], val_min)
         IN  [fields |-> [fields EXCEPT ![field] =
                             SetValue(SetValue(@, over, val_max), under, val_min)],
              err |-> "none"]

\* one call of a masking filter, by name
NoiseOps == {"removeNoiseZ", "removeNoiseZdr", "removeNoiseRhoHV",
             "removeNoisePhiDP", "removeNoiseNCP", "removeNoiseSNR"}
MaskOps == NoiseOps \cup {"removeMountainClutter"}

Filter(op, fields, names, vmin, vmax) ==
    CASE op = "removeNoiseZ" -> removeNoiseZ(fields, names, vmin, vmax)
      [] op = "removeNoiseZdr" -> removeNoiseZdr(fields, names, vmin, vmax)
      [] op = "removeNoiseRhoHV" -> removeNoiseRhoHV(fields, names, vmin, vmax)
      [] op = "removeNoisePhiDP" -> removeNoisePhiDP(fields, names, vmin, vmax)
      [] op = "removeNoiseNCP" -> removeNoiseNCP(fields, names, vmin, vmax)
      [] op = "removeNoiseSNR" -> removeNoiseSNR(fields, names, vmin, vmax)
      [] op = "removeMountainClutter" -> removeMountainClutter(fields, names)

-----------------------------------------------------------------------------
(* Arguments a caller passes *)

\* list(radar.fields.keys()): every field of the volume, in dict order
AllNames(fields) == SelectSeq(FieldOrder, LAMBDA n : n \in DOMAIN fields)

\* radar_fieldnames: every field; the first field only; every field with a
\* name that is no field of the volume after or before them
NameLists(fields) ==
    LET all == AllNames(fields)
    IN  { all, SubSeq(all, 1, 1), all \o <<Absent>>, <<Absent>> \o all }

NoCall == [op |-> "none", names |-> <<>>, vmin |-> 0, vmax |-> 0]
Unused == <<>>

-----------------------------------------------------------------------------
(* Spec: one masking-filter call on a volume *)

FileIdle == infile = Unused /\ fixed = Unused /\ refixed = Unused
SweepIdle == container = Unused /\ nyquist_vel = Unused /\ sweeps = Unused
             /\ handed = Unused

Init ==
    /\ pc = "ready"
    /\ radar \in Volumes
    /\ pre = radar
    /\ mid = Unused
    /\ alt = Unused
    /\ call = NoCall
    /\ err = "none"
    /\ FileIdle
    /\ SweepIdle

Invoke(op, names, vmin, vmax) ==
    LET r == Filter(op, radar.fields, names, vmin, vmax)
    IN  /\ pc' = "returned"
        /\ pre' = radar
        /\ radar' = [radar EXCEPT !.fields = r.fields]
        /\ err' = r.err
        /\ call' = [op |-> op, names |-> names, vmin |-> vmin, vmax |-> vmax]
        /\ UNCHANGED <<mid, alt, fileVars, sweepVars>>

CallRemoveNoiseZ ==
    /\ pc = "ready"
    /\ \E names \in NameLists(radar.fields), b \in BoundPairs :
         Invoke("removeNoiseZ", names, b[1], b[2])

CallRemoveNoiseZdr ==
    /\ pc = "ready"
    /\ \E names \in NameLists(radar.fields), b \in BoundPairs :
         Invoke("removeNoiseZdr", names, b[1], b[2])

CallRemoveNoiseRhoHV ==
    /\ pc = "ready"
    /\ \E names \in NameLists(radar.fields), b \in BoundPairs :
         Invoke("removeNoiseRhoHV", names, b[1], b[2])

CallRemoveNoisePhiDP ==
    /\ pc = "ready"
    /\ \E names \in NameLists(radar.fields), b \in BoundPairs :
         Invoke("removeNoisePhiDP", names, b[1], b[2])

CallRemoveNoiseNCP ==
    /\ pc = "ready"
    /\ \E names \in NameLists(radar.fields), b \in BoundPairs :
         Invoke("removeNoiseNCP", names, b[1], b[2])

CallRemoveNoiseSNR ==
    /\ pc = "ready"
    /\ \E names \in NameLists(radar.fields), b \in BoundPairs :
         Invoke("removeNoiseSNR", names, b[1], b[2])

CallRemoveMountainClutter ==
    /\ pc = "ready"
    /\ \E names \in NameLists(radar.fields) :
         Invoke("removeMountainClutter", names, 0, 0)

Next ==
    \/ CallRemoveNoiseZ
    \/ CallRemoveNoiseZdr
    \/ CallRemoveNoiseRhoHV
    \/ CallRemoveNoisePhiDP
    \/ CallRemoveNoiseNCP
    \/ CallRemoveNoiseSNR
    \/ CallRemoveMountainClutter

Spec == Init /\ [][Next]_vars

-----------------------------------------------------------------------------
(* SpecClamp: set2range called on a volume, then called again with the     *)
(* same arguments                                                          *)

Set2rangeOnce ==
    /\ pc = "ready"
    /\ \E field \in DOMAIN radar.fields \cup {Absent}, b \in BoundPairs :
         LET r == set2range(radar.fields, field, b[2], b[1])
         IN  /\ pc' = "clamped"
             /\ pre' = radar
             /\ radar' = [radar EXCEPT !.fields = r.fields]
             /\ mid' = radar'
             /\ err' = r.err
             /\ call' = [op |-> "set2range", names |-> <<field>>,
                         vmin |-> b[1], vmax |-> b[2]]
             /\ UNCHANGED <<alt, fileVars, sweepVars>>

Set2rangeAgain ==
    LET r == set2range(radar.fields, call.names[1], call.vmax, call.vmin)
    IN  /\ pc = "clamped"
        /\ err = "none"
        /\ pc' = "reclamped"
        /\ radar' = [radar EXCEPT !.fields = r.fields]
        /\ err' = r.err
        /\ UNCHANGED <<pre, mid, alt, call, fileVars, sweepVars>>

NextClamp == Set2rangeOnce \/ Set2rangeAgain

SpecClamp == Init /\ [][NextClamp]_vars

-----------------------------------------------------------------------------
(* SpecOrder: two masking filters A and B, each called with every field of *)
(* the volume listed, applied to the same volume as A then B (radar) and   *)
(* as B then A (alt).  An exception ends the caller's script.  The pair    *)
(* is drawn with A not after B in MaskOpSeq: both orders of every pair are *)
(* still run, one in radar and one in alt.                                 *)

MaskOpSeq == << "removeNoiseZ", "removeNoiseZdr", "removeNoiseRhoHV",
                "removeNoisePhiDP", "removeNoiseNCP", "removeNoiseSNR",
                "removeMountainClutter" >>

BoundsFor(op) == IF op = "removeMountainClutter" THEN {<<0, 0>>} ELSE BoundPairs

CallOf(op, names, b) == [op |-> op, names |-> names, vmin |-> b[1], vmax |-> b[2]]

Run(c, fields) == Filter(c.op, fields, c.names, c.vmin, c.vmax)

OrderFirst ==
    /\ pc = "ready"
    /\ \E i \in 1..Len(MaskOpSeq) :
         \E j \in i..Len(MaskOpSeq) :
           \E bA \in BoundsFor(MaskOpSeq[i]), bB \in BoundsFor(MaskOpSeq[j]) :
             LET A == CallOf(MaskOpSeq[i], AllNames(radar.fields), bA)
                 B == CallOf(MaskOpSeq[j], AllNames(radar.fields), bB)
                 rA == Run(A, radar.fields)
                 rB == Run(B, radar.fields)
             IN  /\ pc' = "half"
                 /\ pre' = radar
                 /\ call' = <<A, B>>
                 /\ radar' = [radar EXCEPT !.fields = rA.fields]
                 /\ alt' = [radar EXCEPT !.fields = rB.fields]
                 /\ mid' = <<radar', alt'>>
                 /\ err' = IF rA.err = "none" THEN rB.err ELSE rA.err
                 /\ UNCHANGED <<fileVars, sweepVars>>

OrderSecond ==
    LET rB == Run(call[2], radar.fields)
        rA == Run(call[1], alt.fields)
    IN  /\ pc = "half"
        /\ err = "none"
        /\ pc' = "done"
        /\ radar' = [radar EXCEPT !.fields = rB.fields]
        /\ alt' = [alt EXCEPT !.fields = rA.fields]
        /\ err' = IF rB.err = "none" THEN rA.err ELSE rB.err
        /\ UNCHANGED <<pre, mid, call, fileVars, sweepVars>>

NextOrder == OrderFirst \/ OrderSecond

SpecOrder == Init /\ [][NextOrder]_vars

-----------------------------------------------------------------------------
(* PPI_fixfilename.  A string is a sequence of one-character strings.      *)

Min(a, b) == IF a < b THEN a ELSE b
Max(a, b) == IF a > b THEN a ELSE b

\* Python's s[a:b]: a negative index counts from the end, an index outside
\* the string is cut to it, and an empty range gives the empty string
PyIndex(n, i) == IF i < 0 THEN Max(n + i, 0) ELSE Min(i, n)
PySlice(s, a, b) ==
    LET lo == PyIndex(Len(s), a)
        hi == PyIndex(Len(s), b)
    IN  IF lo >= hi THEN <<>> ELSE SubSeq(s, lo + 1, hi)

\* s[-1:]
PyLast(s) == IF Len(s) = 0 THEN <<>> ELSE <<s[Len(s)]>>

\* Python's s.replace(old, new): every occurrence of old, found left to right
\* without overlap; an empty old matches before every character and at the end
RECURSIVE ReplaceFrom(_, _, _, _)
ReplaceFrom(s, old, new, i) ==
    IF i > Len(s)
    THEN IF old = <<>> THEN new ELSE <<>>
    ELSE IF old = <<>>
         THEN new \o <<s[i]>> \o ReplaceFrom(s, old, new, i + 1)
         ELSE IF i + Len(old) - 1 <= Len(s) /\ SubSeq(s, i, i + Len(old) - 1) = old
              THEN new \o ReplaceFrom(s, old, new, i + Len(old))
              ELSE <<s[i]>> \o ReplaceFrom(s, old, new, i + 1)

Replace(s, old, new) == ReplaceFrom(s, old, new, 1)

SUR == <<"S", "U", "R", "_">>
S0 == <<"s", "0">>

\* the test made one character to the right: filename[end-16:end-14]
PPI_fixfilenameShifted(filename) ==
    LET end == Len(filename)
    IN  IF PySlice(filename, end - 16, end - 14) = S0
        THEN Replace(filename, PySlice(filename, end - 16, end - 5), SUR)
        ELSE filename

PPI_fixfilename(filename) ==
    LET end == Len(filename)
    IN  IF PySlice(filename, end - 17, end - 15) = S0
        THEN LET chopstr == PySlice(filename, end - 17, end - 6)
                 longchopstr == PySlice(filename, end - 17, end - 5)
                 first == IF PyLast(chopstr) = <<"0">>
                          THEN Replace(filename, longchopstr, SUR)
                          ELSE filename
             IN  Replace(first, chopstr, SUR)
        ELSE filename

\* file names: up to MaxTokens pieces, each one of three
MaxTokens == 6
Tokens == { S0, <<"x", "x", "x", "x", "x">>, <<"x", "x", "x", "0">> }

RECURSIVE NamesOf(_)
NamesOf(n) ==
    IF n = 0 THEN {<<>>}
    ELSE LET shorter == NamesOf(n - 1)
         IN  shorter \cup {s \o t : s \in shorter, t \in Tokens}

FileNames == NamesOf(MaxTokens)

RadarIdle == /\ radar = Unused /\ pre = Unused /\ mid = Unused /\ alt = Unused
             /\ call = NoCall /\ err = "none"

InitFile ==
    /\ pc = "name"
    /\ infile \in FileNames
    /\ fixed = Unused
    /\ refixed = Unused
    /\ RadarIdle
    /\ SweepIdle

FixFilename ==
    /\ pc = "name"
    /\ pc' = "fixed"
    /\ fixed' = PPI_fixfilename(infile)
    /\ UNCHANGED <<infile, refixed, radarVars, sweepVars>>

FixFilenameAgain ==
    /\ pc = "fixed"
    /\ pc' = "refixed"
    /\ refixed' = PPI_fixfilename(fixed)
    /\ UNCHANGED <<infile, fixed, radarVars, sweepVars>>

NextFile == FixFilename \/ FixFilenameAgain

SpecFile == InitFile /\ [][NextFile]_vars

-----------------------------------------------------------------------------
(* dealias: which sweeps reach pyart.correct.dealias_region_based.         *)
(* sweeps[i][r][g] is TRUE when gate g of ray r of sweep i of the field to *)
(* dealias is not masked.  The unfolding itself, add_field and the file    *)
(* write are Py-ART's; handed records the arguments they receive.          *)

MaxSweeps == 3
RaysPerSweep == 2
GatesPerRay == 1

NEXRAD == "NEXRAD Level II"
Containers == {NEXRAD, "UF"}
NyquistChoices == {"None", "13.0"}

SweepData == [1..RaysPerSweep -> [1..GatesPerRay -> BOOLEAN]]
SweepLists == UNION { [1..n -> SweepData] : n \in 1..MaxSweeps }

\* masked_array.count(): the number of gates that are not masked
Count(ray) == Cardinality({g \in DOMAIN ray : ray[g]})

\* the loop of lines 63-66: good holds i when the first ray of sweep i counts
\* a gate
RECURSIVE Good(_, _)
Good(sw, i) ==
    IF i > Len(sw) THEN <<>>
    ELSE (IF Count(sw[i][1]) # 0 THEN <<i>> ELSE <<>>) \o Good(sw, i + 1)

\* the sweeps and the nyquist_vel argument dealias_region_based is given
dealias(cont, nyq, sw) ==
    LET all == [i \in 1..Len(sw) |-> i]
        kept == IF cont # NEXRAD /\ nyq # "None" THEN Good(sw, 1) ELSE all
    IN  [sweeps |-> kept,
         nyquist_vel |-> IF cont = NEXRAD THEN "detected" ELSE nyq]

InitDealias ==
    /\ pc = "volume"
    /\ container \in Containers
    /\ nyquist_vel \in NyquistChoices
    /\ sweeps \in SweepLists
    /\ handed = Unused
    /\ RadarIdle
    /\ FileIdle

Dealias ==
    /\ pc = "volume"
    /\ pc' = "dealiased"
    /\ handed' = dealias(container, nyquist_vel, sweeps)
    /\ UNCHANGED <<container, nyquist_vel, sweeps, radarVars, fileVars>>

NextDealias == Dealias

SpecDealias == InitDealias /\ [][NextDealias]_vars

-----------------------------------------------------------------------------
(* Claims about one masking-filter call (Spec) *)

\* the name each noise filter looks up first
Primary(op) ==
    CASE op = "removeNoiseZ" -> "reflectivity"
      [] op = "removeNoiseZdr" -> "differential_reflectivity"
      [] op = "removeNoiseRhoHV" -> "cross_correlation_ratio"
      [] op = "removeNoisePhiDP" -> "PHIDP"
      [] op = "removeNoiseNCP" -> "normalized_coherent_power"
      [] op = "removeNoiseSNR" -> "snr"

Range(seq) == {seq[k] : k \in 1..Len(seq)}
ListsEveryField == Range(call.names) = DOMAIN pre.fields
NoiseCallOnPrimary ==
    /\ pc = "returned"
    /\ call.op \in NoiseOps
    /\ Primary(call.op) \in DOMAIN pre.fields
Outside(v, vmin, vmax) == Lt(v, vmin) \/ Gt(v, vmax)
Inside(v, vmin, vmax) == v # NaN /\ vmin <= v /\ v <= vmax
GatesOf(vol) == Cells(vol.shape)

\* C1: after a noise filter called with every field listed and its primary
\* driving field present, every gate whose driving value was strictly below
\* the minimum or strictly above the maximum is missing in every field,
\* the driving field included.
C1_OutOfBoundsMasked ==
    (NoiseCallOnPrimary /\ ListsEveryField) =>
        \A c \in GatesOf(pre) :
            Outside(pre.fields[Primary(call.op)][c], call.vmin, call.vmax) =>
                \A f \in DOMAIN radar.fields : radar.fields[f][c] = NaN

C1_Witness ==
    /\ NoiseCallOnPrimary /\ ListsEveryField
    /\ call.op = "removeNoiseZdr"
    /\ \E c \in GatesOf(pre) :
         /\ Lt(pre.fields["differential_reflectivity"][c], call.vmin)
         /\ pre.fields["snr"][c] # NaN
         /\ radar.fields["snr"][c] = NaN
         /\ radar.fields["differential_reflectivity"][c] = NaN

\* C2: after any noise filter (here: one whose primary driving field is
\* present), every gate whose driving value was within the closed interval
\* [min, max], the bounds included, has the value it had before the call in
\* every field.
C2_WithinBoundsUnchanged ==
    NoiseCallOnPrimary =>
        \A c \in GatesOf(pre) :
            Inside(pre.fields[Primary(call.op)][c], call.vmin, call.vmax) =>
                \A f \in DOMAIN radar.fields : radar.fields[f][c] = pre.fields[f][c]

\* C5: removeNoiseZ on a volume with DBZH and DBZV but no reflectivity,
\* called with every field listed and Z_min <= Z_max, masks from one of the
\* two fields tested against both bounds: a gate is missing in every field
\* when that field is outside [Z_min, Z_max] and keeps its values when it is
\* not.
C5_FallbackReadsOneField ==
    ( /\ pc = "returned"
      /\ call.op = "removeNoiseZ"
      /\ "reflectivity" \notin DOMAIN pre.fields
      /\ {"DBZH", "DBZV"} \subseteq DOMAIN pre.fields
      /\ call.vmin <= call.vmax
      /\ ListsEveryField ) =>
        \E d \in {"DBZH", "DBZV"} :
            \A c \in GatesOf(pre) :
                IF Outside(pre.fields[d][c], call.vmin, call.vmax)
                THEN \A f \in DOMAIN radar.fields : radar.fields[f][c] = NaN
                ELSE \A f \in DOMAIN radar.fields :
                         radar.fields[f][c] = pre.fields[f][c]

\* the clutter condition, in tenths
IsClutter(fields, c) ==
    /\ fields["dealiased_velocity"][c] # NaN
    /\ -2 < fields["dealiased_velocity"][c]
    /\ fields["dealiased_velocity"][c] < 2
    /\ fields["reflectivity"][c] # NaN
    /\ fields["reflectivity"][c] > 250

ClutterReturned ==
    pc = "returned" /\ call.op = "removeMountainClutter" /\ err = "none"

\* C6: removeMountainClutter that returns: a gate is missing in every listed
\* field when its dealiased_velocity was strictly between -0.2 and 0.2 and
\* its reflectivity above 25; every other gate, and every field not listed,
\* keeps its values; every array keeps the shape of the reflectivity array.
C6_ClutterMask ==
    ClutterReturned =>
        /\ \A f \in DOMAIN radar.fields :
               DOMAIN radar.fields[f] = DOMAIN pre.fields["reflectivity"]
        /\ \A c \in GatesOf(pre), f \in DOMAIN radar.fields :
               radar.fields[f][c] =
                   IF f \in Range(call.names) /\ IsClutter(pre.fields, c)
                   THEN NaN
                   ELSE pre.fields[f][c]

C6_Witness ==
    /\ ClutterReturned
    /\ ListsEveryField
    /\ \E c \in GatesOf(pre) :
         /\ IsClutter(pre.fields, c)
         /\ radar.fields["reflectivity"][c] = NaN
         /\ radar.fields["dealiased_velocity"][c] = NaN

\* C9 as stated: a masking-filter call that ends with a lookup error leaves
\* every field as it was before the call.
C9_ErrorLeavesVolume ==
    (pc = "returned" /\ call.op \in MaskOps /\ err = "KeyError") => radar = pre

\* the lookup of the driving field (and its fallbacks) raises
LookupRaises(op, fields) == Filter(op, fields, <<>>, 0, 0).err = "KeyError"
FirstBad(names, fields) ==
    CHOOSE k \in 1..Len(names) :
        /\ names[k] \notin DOMAIN fields
        /\ \A j \in 1..(k - 1) : names[j] \in DOMAIN fields

\* C9 amended: when the driving field and its fallbacks are absent the
\* volume is as before the call; when a name of radar_fieldnames is no field,
\* the fields named before the first such name hold what the call with
\* those names alone leaves, and every other field is as before the call.
C9_ErrorAfterPartialMasking ==
    (pc = "returned" /\ call.op \in MaskOps /\ err = "KeyError") =>
        IF LookupRaises(call.op, pre.fields)
        THEN radar = pre
        ELSE LET k == FirstBad(call.names, pre.fields)
                 done == SubSeq(call.names, 1, k - 1)
                 r == Filter(call.op, pre.fields, done, call.vmin, call.vmax)
             IN  /\ r.err = "none"
                 /\ radar.fields = r.fields
                 /\ \A f \in DOMAIN pre.fields \ Range(done) :
                        radar.fields[f] = pre.fields[f]

C9_Witness ==
    /\ pc = "returned" /\ call.op \in MaskOps /\ err = "KeyError"
    /\ ~LookupRaises(call.op, pre.fields)
    /\ radar # pre

-----------------------------------------------------------------------------
(* Claims about set2range (SpecClamp) *)

Clamped(v, vmin, vmax) ==
    IF Lt(v, vmin) THEN vmin ELSE IF Gt(v, vmax) THEN vmax ELSE v

\* C3: set2range with val_min <= val_max leaves val_min where the value was
\* below val_min, val_max where it was above val_max, the value itself
\* otherwise, and leaves every other field unchanged.
C3_ClampsToRange ==
    (pc = "clamped" /\ err = "none" /\ call.vmin <= call.vmax) =>
        \A f \in DOMAIN radar.fields, c \in GatesOf(pre) :
            radar.fields[f][c] =
                IF f = call.names[1]
                THEN Clamped(pre.fields[f][c], call.vmin, call.vmax)
                ELSE pre.fields[f][c]

C3_Witness ==
    /\ pc = "clamped" /\ err = "none" /\ call.vmin < call.vmax
    /\ \E c \in GatesOf(pre) :
         /\ Gt(pre.fields[call.names[1]][c], call.vmax)
         /\ radar.fields[call.names[1]][c] = call.vmax

\* C4 as stated: for every pair of bounds, a second set2range call with the
\* same arguments leaves the volume as the first call left it.
C4_IdempotentAnyBounds ==
    pc = "reclamped" => radar = mid

\* C4 amended: with val_min <= val_max, a second set2range call with the same
\* arguments leaves the volume as the first call left it.
C4_IdempotentOrderedBounds ==
    (pc = "reclamped" /\ call.vmin <= call.vmax) => radar = mid

C4_Witness ==
    pc = "reclamped" /\ call.vmin <= call.vmax /\ mid # pre /\ radar = mid

-----------------------------------------------------------------------------
(* Claims about two filters in either order (SpecOrder) *)

Missing(vol) ==
    {fc \in (DOMAIN vol.fields) \X GatesOf(vol) : vol.fields[fc[1]][fc[2]] = NaN}

\* C10: two masking filters called with every field listed give the same
\* volume in either order; its missing gates are those missing after either
\* filter alone on the original volume (the gates missing beforehand and the
\* gates either filter masks), every other gate has its original value, and
\* no call gives a missing gate a value.
C10_OrderIndependent ==
    /\ (pc = "half") =>
          /\ Missing(pre) \subseteq Missing(radar)
          /\ Missing(pre) \subseteq Missing(alt)
    /\ (pc = "done") =>
          /\ radar = alt
          /\ Missing(radar) = Missing(mid[1]) \cup Missing(mid[2])
          /\ Missing(pre) \subseteq Missing(mid[1]) \cap Missing(mid[2])
          /\ \A fc \in ((DOMAIN pre.fields) \X GatesOf(pre)) \ Missing(radar) :
                 radar.fields[fc[1]][fc[2]] = pre.fields[fc[1]][fc[2]]

C10_Witness ==
    /\ pc = "done"
    /\ call[1].op # call[2].op
    /\ Missing(pre) # {}
    /\ Missing(mid[1]) # Missing(pre)
    /\ Missing(mid[2]) # Missing(mid[1])
    /\ radar = alt

-----------------------------------------------------------------------------
(* Claims about PPI_fixfilename (SpecFile) *)

\* the characters at [len-17:len-15] are "s0"
MarkerAt(f) == PySlice(f, Len(f) - 17, Len(f) - 15) = <<"s", "0">>

\* C8 as stated: PPI_fixfilename applied to its own result returns it
\* unchanged, for every file name; and a name without "s0" at [len-17:len-15]
\* is returned unchanged.
C8_IdempotentEveryName ==
    /\ (pc \in {"fixed", "refixed"} /\ ~MarkerAt(infile)) => fixed = infile
    /\ (pc = "refixed") => refixed = fixed

\* C8 amended: a name without "s0" at [len-17:len-15] is returned unchanged;
\* so the second call returns the first call's result unchanged whenever that
\* result has no "s0" at [len-17:len-15] of its own length.
C8_UnchangedWithoutMarker ==
    /\ (pc \in {"fixed", "refixed"} /\ ~MarkerAt(infile)) => fixed = infile
    /\ (pc = "refixed" /\ ~MarkerAt(fixed)) => refixed = fixed

C8_Witness ==
    /\ pc = "refixed"
    /\ Len(infile) >= 17
    /\ MarkerAt(infile)
    /\ fixed # infile
    /\ ~MarkerAt(fixed)
    /\ refixed = fixed

-----------------------------------------------------------------------------
(* Claims about dealias (SpecDealias) *)

HasData(sweep) == \E r \in DOMAIN sweep : \E g \in DOMAIN sweep[r] : sweep[r][g]

\* C7: for a volume that is not NEXRAD Level II, whatever nyquist_vel is, the
\* sweeps handed to the unfolding call are exactly the sweeps with at least
\* one gate that is not masked, in their order; for a NEXRAD Level II volume
\* every sweep is handed over.
C7_SweepsWithDataKept ==
    (pc = "dealiased") =>
        handed.sweeps = SelectSeq([i \in 1..Len(sweeps) |-> i],
                                  LAMBDA i : container = NEXRAD \/ HasData(sweeps[i]))

=============================================================================
